---- MODULE Spec2Model ----
(***************************************************************************)
(* The Python 3 mode of the Mu editor (src/mu/modes/python3.py).           *)
(*                                                                         *)
(* PythonMode holds two optional handles: runner (the pane and process of  *)
(* a running script) and kernel_runner (the KernelRunner of the iPython    *)
(* REPL, living on kernel_thread).  The handlers of the UI thread          *)
(* (run_toggle, run_script, stop_script, debug, toggle_repl,               *)
(* on_kernel_start, on_kernel_stop) each run to completion; the worker     *)
(* thread runs KernelRunner.start_kernel and KernelRunner.stop_kernel and  *)
(* reports back with queued signals.                                       *)
(***************************************************************************)
EXTENDS Integers, Sequences, FiniteSets, TLC

\* ---------------------------------------------------------------- bounds
MaxProcs == 2      \* script processes that exist at the same time
NumPaths == 1      \* file paths a tab can be saved under
NumTexts == 2      \* distinct tab texts
MaxSessions == 2   \* kernel sessions (runner + worker thread) ever created
MaxStopReq == 2    \* stop_kernel requests waiting in one worker's queue

\* ------------------------------------------------------------- constants
None == 0          \* runner = None, kernel_runner = None, tab.path is None
NoFile == None     \* content of a path that holds no file

Procs == 1..MaxProcs
Paths == 1..NumPaths
Texts == 1..NumTexts
Sessions == 1..MaxSessions

VARIABLES
    \* --- script run state (PythonMode.runner and what it touches)
    runner,          \* self.runner: None or the process of the runner pane
    proc,            \* per process slot: "running", or "none" once it has ended
    run_slot,        \* icon/text/tooltip of slots['run']: "run" or "stop"
    debug_enabled,   \* slots['debug'].isEnabled()
    modes_enabled,   \* slots['modes'].isEnabled()
    view_runner,     \* the script-runner pane of the view (None or its process)
    tab,             \* view.current_tab: present, path, modified, text
    disk,            \* file content per path
    editor_mode,     \* editor.mode
    \* --- kernel session state
    kernel_runner,   \* self.kernel_runner: None or a session
    kernel_thread,   \* self.kernel_thread: None (unset) or a session
    thread,          \* per session, the state of its QThread
    kernel,          \* per session, the runner's manager/client
    stop_pc,         \* per session, the position inside stop_kernel
    workerQ,         \* per session, queued stop_kernel calls of the worker
    connected,       \* runners whose stop_kernel slot self.stop_kernel reaches
    mainQ,           \* events queued for the UI thread
    repl_enabled,    \* slots['repl'].isEnabled()
    view_repl,       \* the REPL pane of the view (None or its session)
    status_message,  \* last editor.show_status_message
    \* --- history
    op,              \* the operation that ran last
    repeated,        \* the operation before it was the same operation
    trace,           \* the calls to collaborators the last operation made
    kstarted,        \* on_kernel_start has run for the current session
    remove_count,    \* how often remove_repl has run for the current session
    stop_runs        \* per session, how often stop_kernel has begun

scriptVars == <<runner, proc, run_slot, debug_enabled, modes_enabled,
                view_runner, tab, disk>>
kernelVars == <<kernel_runner, kernel_thread, thread, kernel, stop_pc, workerQ,
                connected, mainQ, repl_enabled, view_repl, status_message,
                kstarted, remove_count, stop_runs>>
vars == <<scriptVars, editor_mode, kernelVars, op, repeated, trace>>

\* ------------------------------------------------------------ the tab
NoTab == [present |-> FALSE, path |-> None, modified |-> FALSE, text |-> 1]

Tabs == {NoTab} \cup
        [present : {TRUE}, path : Paths \cup {None}, modified : BOOLEAN,
         text : Texts]

\* ------------------------------------------------ script run: pure steps
\* The script state as one value, so that a handler can be composed of the
\* handlers it calls.
ScriptState == [runner |-> runner, proc |-> proc, run_slot |-> run_slot,
                debug_enabled |-> debug_enabled,
                modes_enabled |-> modes_enabled,
                view_runner |-> view_runner, tab |-> tab, disk |-> disk,
                trace |-> <<>>]

Called(s, name) == [s EXCEPT !.trace = Append(@, name)]

\* view.remove_python_runner(): the view drops its script-runner pane.
view_remove_python_runner(s) ==
    Called([s EXCEPT !.view_runner = None], "remove_python_runner")

\* A process slot that holds no running process.
FreeProc(s) == CHOOSE p \in Procs : s.proc[p] = "none" /\
                   \A q \in Procs : s.proc[q] = "none" => p <= q

\* view.add_python3_runner(path, cwd, interactive=True) followed by
\* process.waitForStarted(): a new pane with a new running process.
view_add_python3_runner(s) ==
    LET p == FreeProc(s)
    IN  Called(Called([s EXCEPT !.proc[p] = "running", !.view_runner = p,
                                !.runner = p],
                      "add_python3_runner"), "waitForStarted")

\* editor.save() on the current tab.  The save dialog gives a path or is
\* cancelled; with a path the text is written and the tab set unmodified,
\* unless the write fails.
SaveOutcomes == {"cancelled", "saved", "write_failed"}

editor_save(s, outcome, p) ==
    LET t == Called(s, "save")
    IN  CASE outcome = "cancelled" -> t
          [] outcome = "saved" ->
                [t EXCEPT !.tab.path = p, !.tab.modified = FALSE,
                          !.disk[p] = s.tab.text]
          [] outcome = "write_failed" -> [t EXCEPT !.tab.path = p]

\* lines 126, 175
RunnerIsSet(s) == s.runner # None

\* stop_script that kills the process and keeps the handle.
stop_script_KeepsHandle(s) ==
    LET killed == IF RunnerIsSet(s)
                  THEN Called(Called([s EXCEPT !.proc[s.runner] = "none"],
                                     "kill"), "waitForFinished")
                  ELSE s
    IN  view_remove_python_runner(killed)

\* stop_script that tells the view only when it has killed a process.
stop_script_ViewOnlyAfterKill(s) ==
    IF RunnerIsSet(s)
    THEN view_remove_python_runner(
             Called(Called([s EXCEPT !.proc[s.runner] = "none",
                                     !.runner = None],
                           "kill"), "waitForFinished"))
    ELSE s

\* lines 170-179
stop_script(s) ==
    LET killed == IF RunnerIsSet(s)
                  THEN Called(Called([s EXCEPT !.proc[s.runner] = "none",
                                               !.runner = None],
                                     "kill"), "waitForFinished")
                  ELSE s
    IN  view_remove_python_runner(killed)

\* The write that marks the tab unmodified and leaves the file as it was.
write_and_flush_OnlyMarks(s) ==
    Called([s EXCEPT !.tab.modified = FALSE], "write_and_flush")

\* lines 158-163: the explicit write of a modified tab
write_and_flush(s) ==
    Called([s EXCEPT !.disk[s.tab.path] = s.tab.text,
                     !.tab.modified = FALSE], "write_and_flush")

\* run_script that goes on whatever the save gave.
PathIsSet_Always(s) == TRUE

\* line 156
PathIsSet(s) == s.tab.path # None

\* run_script that returns at once when there is no tab.
run_script_ReturnsWithoutStop(s, outcome, p) ==
    IF ~s.tab.present
    THEN s
    ELSE LET saved == IF s.tab.path = None THEN editor_save(s, outcome, p)
                      ELSE s
         IN  IF PathIsSet(saved)
             THEN view_add_python3_runner(
                      IF saved.tab.modified THEN write_and_flush(saved)
                      ELSE saved)
             ELSE saved

\* run_script that writes the file whether or not the tab is modified.
run_script_AlwaysWrites(s, outcome, p) ==
    IF ~s.tab.present
    THEN stop_script(s)
    ELSE LET saved == IF s.tab.path = None THEN editor_save(s, outcome, p)
                      ELSE s
         IN  IF PathIsSet(saved)
             THEN view_add_python3_runner(write_and_flush(saved))
             ELSE saved

\* lines 143-168
run_script(s, outcome, p) ==
    IF ~s.tab.present
    THEN stop_script(s)
    ELSE LET saved == IF s.tab.path = None THEN editor_save(s, outcome, p)
                      ELSE s
         IN  IF PathIsSet(saved)
             THEN view_add_python3_runner(
                      IF saved.tab.modified THEN write_and_flush(saved)
                      ELSE saved)
             ELSE saved

\* run_toggle that switches the buttons whatever run_script did.
ScriptStarted_Always(s) == TRUE

\* line 135
ScriptStarted(s) == s.runner # None

\* lines 121-141
run_toggle(s, outcome, p) ==
    IF RunnerIsSet(s)
    THEN [stop_script(s) EXCEPT !.run_slot = "run", !.debug_enabled = TRUE,
                                !.modes_enabled = TRUE]
    ELSE LET r == run_script(s, outcome, p)
         IN  IF ScriptStarted(r)
             THEN [r EXCEPT !.run_slot = "stop", !.debug_enabled = FALSE,
                            !.modes_enabled = FALSE]
             ELSE r

\* A handler that may spawn runs only while a process slot is free.
CanSpawn == \E p \in Procs : proc[p] = "none"

SetScript(s, name) ==
    /\ runner' = s.runner
    /\ proc' = s.proc
    /\ run_slot' = s.run_slot
    /\ debug_enabled' = s.debug_enabled
    /\ modes_enabled' = s.modes_enabled
    /\ view_runner' = s.view_runner
    /\ tab' = s.tab
    /\ disk' = s.disk
    /\ trace' = s.trace
    /\ op' = name
    /\ repeated' = (op = op')

\* ------------------------------------------------- script run: actions
RunToggle ==
    /\ runner # None \/ CanSpawn
    /\ \E outcome \in SaveOutcomes, p \in Paths :
           SetScript(run_toggle(ScriptState, outcome, p), "run_toggle")
    /\ UNCHANGED <<editor_mode, kernelVars>>

RunScript ==
    /\ ~tab.present \/ CanSpawn
    /\ \E outcome \in SaveOutcomes, p \in Paths :
           SetScript(run_script(ScriptState, outcome, p), "run_script")
    /\ UNCHANGED <<editor_mode, kernelVars>>

StopScript ==
    /\ SetScript(stop_script(ScriptState), "stop_script")
    /\ UNCHANGED <<editor_mode, kernelVars>>

\* editor.change_mode(mode) and editor.mode = mode: the editor shows the
\* buttons of the other mode; the handles of this mode are not its concern.
editor_change_mode(mode) == editor_mode' = mode

\* lines 181-188: the editor changes to the debug mode and starts it.
Debug ==
    /\ editor_change_mode("debugger")
    /\ op' = "debug"
    /\ repeated' = (op = op')
    /\ trace' = <<"change_mode", "start">>
    /\ UNCHANGED <<scriptVars, kernelVars>>

\* The external process ends by itself.  Nothing in the mode listens to it:
\* runner and the pane of the view keep referring to the ended process.
ProcessExit ==
    /\ \E p \in Procs :
          /\ proc[p] = "running"
          /\ proc' = [proc EXCEPT ![p] = "none"]
    /\ op' = "process_exit"
    /\ repeated' = (op = op')
    /\ trace' = <<>>
    /\ UNCHANGED <<runner, run_slot, debug_enabled, modes_enabled, view_runner,
                   tab, disk, editor_mode, kernelVars>>

\* The user changes the current tab: a new unsaved tab, an edit, a file
\* opened from disk, or the last tab closed.
NewTab ==
    /\ tab' = [present |-> TRUE, path |-> None, modified |-> FALSE, text |-> 1]
    /\ tab' # tab
    /\ op' = "new_tab"
    /\ repeated' = (op = op')
    /\ trace' = <<>>
    /\ UNCHANGED <<runner, proc, run_slot, debug_enabled, modes_enabled,
                   view_runner, disk, editor_mode, kernelVars>>

EditTab ==
    /\ tab.present
    /\ \E t \in Texts : tab' = [tab EXCEPT !.text = t, !.modified = TRUE]
    /\ tab' # tab
    /\ op' = "edit_tab"
    /\ repeated' = (op = op')
    /\ trace' = <<>>
    /\ UNCHANGED <<runner, proc, run_slot, debug_enabled, modes_enabled,
                   view_runner, disk, editor_mode, kernelVars>>

OpenTab ==
    /\ \E p \in Paths :
          /\ disk[p] # NoFile
          /\ tab' = [present |-> TRUE, path |-> p, modified |-> FALSE,
                     text |-> disk[p]]
    /\ tab' # tab
    /\ op' = "open_tab"
    /\ repeated' = (op = op')
    /\ trace' = <<>>
    /\ UNCHANGED <<runner, proc, run_slot, debug_enabled, modes_enabled,
                   view_runner, disk, editor_mode, kernelVars>>

CloseTab ==
    /\ tab.present
    /\ tab' = NoTab
    /\ op' = "close_tab"
    /\ repeated' = (op = op')
    /\ trace' = <<>>
    /\ UNCHANGED <<runner, proc, run_slot, debug_enabled, modes_enabled,
                   view_runner, disk, editor_mode, kernelVars>>

\* ------------------------------------------------ kernel session: UI thread
\* The session states of the REPL toggle.
Idle == kernel_runner = None
Starting == kernel_runner # None /\ ~kstarted
Stopping == kernel_runner # None /\ remove_count > 0
Running == kernel_runner # None /\ kstarted /\ remove_count = 0

SessionState ==
    IF Idle THEN "Idle"
    ELSE IF remove_count > 0 THEN "Stopping"
    ELSE IF kstarted THEN "Running" ELSE "Starting"

\* The QThread objects whose thread is running.
AliveThreads == {i \in Sessions : thread[i] \in {"started", "starting", "loop", "quit"}}

\* The session a new KernelRunner and QThread get.
FreshSession == CHOOSE i \in Sessions : thread[i] = "unborn" /\
                    \A j \in Sessions : thread[j] = "unborn" => i <= j

\* lines 205-218.  kernel_thread.start() leaves the new thread about to emit
\* started, which calls start_kernel on that thread.
add_repl ==
    LET i == FreshSession
    IN  /\ repl_enabled' = FALSE
        /\ kernel_thread' = i
        /\ kernel_runner' = i
        /\ connected' = connected \cup {i}
        /\ thread' = [thread EXCEPT ![i] = "started"]
        /\ kstarted' = FALSE
        /\ remove_count' = 0
        /\ UNCHANGED <<kernel, stop_pc, workerQ, mainQ, view_repl, stop_runs>>

\* lines 220-227.  stop_kernel.emit() queues a stop_kernel call on the thread
\* of every connected runner.
remove_repl ==
    /\ view_repl' = None
    /\ repl_enabled' = FALSE
    /\ workerQ' = [i \in Sessions |->
                      IF i \in connected THEN workerQ[i] + 1 ELSE workerQ[i]]
    /\ remove_count' = remove_count + 1
    /\ UNCHANGED <<kernel_runner, kernel_thread, connected, thread, kernel,
                   stop_pc, mainQ, kstarted, stop_runs>>

\* toggle_repl that starts a session whatever kernel_runner holds.
KernelRunnerIsNone_Always == TRUE

\* line 194
KernelRunnerIsNone == kernel_runner = None

\* lines 190-203
toggle_repl ==
    IF KernelRunnerIsNone
    THEN /\ status_message' = "Starting iPython REPL."
         /\ add_repl
    ELSE /\ status_message' = "Stopping iPython REPL"
         /\ remove_repl

ToggleRepl ==
    /\ KernelRunnerIsNone => \E i \in Sessions : thread[i] = "unborn"
    /\ ~KernelRunnerIsNone => remove_count < MaxStopReq
    /\ toggle_repl
    /\ op' = "toggle_repl"
    /\ repeated' = (op = op')
    /\ trace' = <<>>
    /\ UNCHANGED <<scriptVars, editor_mode>>

\* line 244: the button bar holds a 'repl' slot while the Python mode is shown.
ReplSlotPresent == editor_mode = "python"

\* lines 229-236
on_kernel_start(i) ==
    /\ view_repl' = i
    /\ repl_enabled' = TRUE
    /\ status_message' = "REPL started."
    /\ kstarted' = TRUE
    /\ UNCHANGED <<kernel_runner, kernel_thread, connected, thread, kernel,
                   stop_pc, workerQ, remove_count, stop_runs>>

\* lines 238-247.  Dropping the last reference to the runner ends its
\* connection to self.stop_kernel.
on_kernel_stop ==
    /\ repl_enabled' = IF ReplSlotPresent THEN TRUE ELSE repl_enabled
    /\ status_message' = "REPL stopped."
    /\ kernel_runner' = None
    /\ connected' = connected \ {kernel_runner}
    /\ kstarted' = FALSE
    /\ remove_count' = 0
    /\ UNCHANGED <<kernel_thread, thread, kernel, stop_pc, workerQ, view_repl,
                   stop_runs>>

\* line 214: kernel_finished is connected to kernel_thread.quit; the QThread
\* object lives on the UI thread, which makes the worker's event loop return.
thread_quit(i) ==
    /\ thread' = [thread EXCEPT ![i] = IF @ = "loop" THEN "quit" ELSE @]
    /\ UNCHANGED <<kernel_runner, kernel_thread, connected, kernel, stop_pc,
                   workerQ, repl_enabled, view_repl, status_message, kstarted,
                   remove_count, stop_runs>>

\* The UI thread's event loop takes the next queued event.
DeliverStart ==
    /\ mainQ # <<>> /\ Head(mainQ)[1] = "on_kernel_start"
    /\ mainQ' = Tail(mainQ)
    /\ on_kernel_start(Head(mainQ)[2])
    /\ op' = "on_kernel_start"
    /\ repeated' = (op = op')
    /\ trace' = <<>>
    /\ UNCHANGED <<scriptVars, editor_mode>>

\* on_kernel_stop that clears runner along with kernel_runner.
DeliverStop_ClearsRunner ==
    /\ mainQ # <<>> /\ Head(mainQ)[1] = "on_kernel_stop"
    /\ mainQ' = Tail(mainQ)
    /\ on_kernel_stop
    /\ runner' = None
    /\ op' = "on_kernel_stop"
    /\ repeated' = (op = op')
    /\ trace' = <<>>
    /\ UNCHANGED <<proc, run_slot, debug_enabled, modes_enabled, view_runner,
                   tab, disk, editor_mode>>

DeliverQuit ==
    /\ mainQ # <<>> /\ Head(mainQ)[1] = "quit"
    /\ mainQ' = Tail(mainQ)
    /\ thread_quit(Head(mainQ)[2])
    /\ op' = "quit"
    /\ repeated' = (op = op')
    /\ trace' = <<>>
    /\ UNCHANGED <<scriptVars, editor_mode>>

DeliverStop ==
    /\ mainQ # <<>> /\ Head(mainQ)[1] = "on_kernel_stop"
    /\ mainQ' = Tail(mainQ)
    /\ on_kernel_stop
    /\ op' = "on_kernel_stop"
    /\ repeated' = (op = op')
    /\ trace' = <<>>
    /\ UNCHANGED <<scriptVars, editor_mode>>

\* ---------------------------------------------- kernel session: worker thread
\* lines 49-58: the started signal calls start_kernel on the new thread,
\* before its event loop runs: the manager is created and started.
StartKernelManager(i) ==
    /\ thread[i] = "started"
    /\ thread' = [thread EXCEPT ![i] = "starting"]
    /\ kernel' = [kernel EXCEPT ![i] = "manager"]
    /\ op' = "start_kernel"
    /\ repeated' = (op = op')
    /\ trace' = <<>>
    /\ UNCHANGED <<scriptVars, editor_mode, kernel_runner, kernel_thread,
                   connected, stop_pc, workerQ, mainQ, repl_enabled, view_repl,
                   status_message, kstarted, remove_count, stop_runs>>

\* start_kernel whose kernel_started calls on_kernel_start at once, on the
\* worker thread.
StartKernelClient_DirectCall(i) ==
    /\ thread[i] = "starting"
    /\ thread' = [thread EXCEPT ![i] = "loop"]
    /\ kernel' = [kernel EXCEPT ![i] = "up"]
    /\ view_repl' = i
    /\ repl_enabled' = TRUE
    /\ status_message' = "REPL started."
    /\ kstarted' = TRUE
    /\ op' = "start_kernel"
    /\ repeated' = (op = op')
    /\ trace' = <<>>
    /\ UNCHANGED <<scriptVars, editor_mode, kernel_runner, kernel_thread,
                   connected, stop_pc, workerQ, mainQ, remove_count, stop_runs>>

\* lines 58-60: the client is obtained and kernel_started is emitted (queued
\* to the UI thread); start_kernel returns and the event loop begins.
StartKernelClient(i) ==
    /\ thread[i] = "starting"
    /\ thread' = [thread EXCEPT ![i] = "loop"]
    /\ kernel' = [kernel EXCEPT ![i] = "up"]
    /\ mainQ' = Append(mainQ, <<"on_kernel_start", i>>)
    /\ op' = "start_kernel"
    /\ repeated' = (op = op')
    /\ trace' = <<>>
    /\ UNCHANGED <<scriptVars, editor_mode, kernel_runner, kernel_thread,
                   connected, stop_pc, workerQ, repl_enabled, view_repl,
                   status_message, kstarted, remove_count, stop_runs>>

\* An event loop that takes queued calls while start_kernel still runs.
LoopRuns_WhileStarting(i) == thread[i] \in {"starting", "loop", "quit"}

\* The worker's event loop may take a queued call.
LoopRuns(i) == thread[i] \in {"loop", "quit"}

\* line 67: a queued stop_kernel begins; the client's channels are stopped.
\* A kernel that is already shut down stays shut down.
StopChannels(i) ==
    /\ LoopRuns(i)
    /\ stop_pc[i] = "idle"
    /\ workerQ[i] > 0
    /\ workerQ' = [workerQ EXCEPT ![i] = @ - 1]
    /\ stop_runs' = [stop_runs EXCEPT ![i] = @ + 1]
    /\ kernel' = [kernel EXCEPT ![i] = IF @ = "up" THEN "channels_stopped"
                                        ELSE @]
    /\ stop_pc' = [stop_pc EXCEPT ![i] = "channels_stopped"]
    /\ op' = "stop_kernel"
    /\ repeated' = (op = op')
    /\ trace' = <<>>
    /\ UNCHANGED <<scriptVars, editor_mode, kernel_runner, kernel_thread,
                   connected, thread, mainQ, repl_enabled, view_repl,
                   status_message, kstarted, remove_count>>

\* line 68: shutdown_kernel(now=True)
ShutdownKernel(i) ==
    /\ stop_pc[i] = "channels_stopped"
    /\ kernel' = [kernel EXCEPT ![i] = "down"]
    /\ stop_pc' = [stop_pc EXCEPT ![i] = "shutdown"]
    /\ op' = "stop_kernel"
    /\ repeated' = (op = op')
    /\ trace' = <<>>
    /\ UNCHANGED <<scriptVars, editor_mode, kernel_runner, kernel_thread,
                   connected, thread, workerQ, mainQ, repl_enabled, view_repl,
                   status_message, kstarted, remove_count, stop_runs>>

\* stop_kernel that emits kernel_finished before it shuts the kernel down.
EmitFinished_BeforeShutdown(i) ==
    /\ stop_pc[i] \in {"channels_stopped", "shutdown"}
    /\ stop_pc' = [stop_pc EXCEPT ![i] = "idle"]
    /\ mainQ' = Append(mainQ, <<"quit", i>>)
    /\ op' = "stop_kernel"
    /\ repeated' = (op = op')
    /\ trace' = <<>>
    /\ UNCHANGED <<scriptVars, editor_mode, kernel_runner, kernel_thread,
                   connected, thread, kernel, workerQ, repl_enabled, view_repl,
                   status_message, kstarted, remove_count, stop_runs>>

\* stop_kernel that returns without emitting kernel_finished.
EmitFinished_NoSignal(i) ==
    /\ stop_pc[i] = "shutdown"
    /\ stop_pc' = [stop_pc EXCEPT ![i] = "idle"]
    /\ op' = "stop_kernel"
    /\ repeated' = (op = op')
    /\ trace' = <<>>
    /\ UNCHANGED <<scriptVars, editor_mode, kernel_runner, kernel_thread,
                   connected, thread, kernel, workerQ, mainQ, repl_enabled,
                   view_repl, status_message, kstarted, remove_count,
                   stop_runs>>

\* line 69: kernel_finished is emitted: the call of kernel_thread.quit is
\* queued to the UI thread, where the QThread object lives.
EmitFinished(i) ==
    /\ stop_pc[i] = "shutdown"
    /\ stop_pc' = [stop_pc EXCEPT ![i] = "idle"]
    /\ mainQ' = Append(mainQ, <<"quit", i>>)
    /\ op' = "stop_kernel"
    /\ repeated' = (op = op')
    /\ trace' = <<>>
    /\ UNCHANGED <<scriptVars, editor_mode, kernel_runner, kernel_thread,
                   connected, thread, kernel, workerQ, repl_enabled, view_repl,
                   status_message, kstarted, remove_count, stop_runs>>

\* line 217: the event loop has returned; the thread emits finished (queued
\* to the UI thread as on_kernel_stop) and ends.
ThreadFinished(i) ==
    /\ thread[i] = "quit"
    /\ stop_pc[i] = "idle"
    /\ thread' = [thread EXCEPT ![i] = "finished"]
    /\ mainQ' = Append(mainQ, <<"on_kernel_stop", i>>)
    /\ op' = "thread_finished"
    /\ repeated' = (op = op')
    /\ trace' = <<>>
    /\ UNCHANGED <<scriptVars, editor_mode, kernel_runner, kernel_thread,
                   connected, kernel, stop_pc, workerQ, repl_enabled, view_repl,
                   status_message, kstarted, remove_count, stop_runs>>

Worker ==
    \E i \in Sessions :
        \/ StartKernelManager(i)
        \/ StartKernelClient(i)
        \/ StopChannels(i)
        \/ ShutdownKernel(i)
        \/ EmitFinished(i)
        \/ ThreadFinished(i)

\* --------------------------------------------------------------- Init
Init ==
    /\ runner = None
    /\ proc = [p \in Procs |-> "none"]
    /\ run_slot = "run"
    /\ debug_enabled = TRUE
    /\ modes_enabled = TRUE
    /\ view_runner = None
    /\ tab = NoTab
    /\ disk = [p \in Paths |-> NoFile]
    /\ editor_mode = "python"
    /\ kernel_runner = None
    /\ kernel_thread = None
    /\ thread = [i \in Sessions |-> "unborn"]
    /\ kernel = [i \in Sessions |-> "none"]
    /\ stop_pc = [i \in Sessions |-> "idle"]
    /\ workerQ = [i \in Sessions |-> 0]
    /\ connected = {}
    /\ mainQ = <<>>
    /\ repl_enabled = TRUE
    /\ view_repl = None
    /\ status_message = "none"
    /\ op = "init"
    /\ repeated = FALSE
    /\ trace = <<>>
    /\ kstarted = FALSE
    /\ remove_count = 0
    /\ stop_runs = [i \in Sessions |-> 0]

TabChange == NewTab \/ EditTab \/ OpenTab \/ CloseTab

\* Only the run button is used.
NextToggle == RunToggle \/ ProcessExit \/ TabChange
SpecToggle == Init /\ [][NextToggle]_vars

\* The script handlers, called in any order.
NextRun == RunToggle \/ RunScript \/ StopScript \/ ProcessExit \/ TabChange
SpecRun == Init /\ [][NextRun]_vars

\* The REPL button and the kernel session.
NextRepl == ToggleRepl \/ DeliverStart \/ DeliverQuit \/ DeliverStop \/ Worker
SpecRepl == Init /\ [][NextRepl]_vars

\* The worker thread gets processor time and the UI thread's event loop
\* keeps taking its queued events.
Fairness ==
    /\ WF_vars(Worker)
    /\ WF_vars(DeliverStart)
    /\ WF_vars(DeliverQuit)
    /\ WF_vars(DeliverStop)
SpecReplFair == SpecRepl /\ Fairness

\* lines 85-112: the handlers as the button bar calls them.  The buttons of
\* this mode are shown while the editor is in it, and a disabled button calls
\* nothing.
ButtonsShown == editor_mode = "python"
ClickRun == ButtonsShown /\ RunToggle
ClickDebug == ButtonsShown /\ debug_enabled /\ Debug
ClickRepl == ButtonsShown /\ repl_enabled /\ ToggleRepl

\* The three buttons of the mode, the worker thread and the environment.
Next ==
    \/ ClickRun \/ ClickDebug \/ ClickRepl
    \/ ProcessExit \/ TabChange
    \/ DeliverStart \/ DeliverQuit \/ DeliverStop \/ Worker
Spec == Init /\ [][Next]_vars

\* ======================================================= kernel session claims

\* C1: the 'repl' button is disabled if and only if the session is Starting
\* (add_repl has run, on_kernel_start has not) or Stopping (remove_repl has
\* run, on_kernel_stop has not), under any interleaving of toggle_repl calls
\* with the queued notifications.
C1_ReplDisabledIffTransitional ==
    (~repl_enabled) <=> (Starting \/ Stopping)

\* C2: at most one worker thread and one KernelRunner are alive, the alive
\* thread is the one of kernel_runner, and kernel_runner is None only when no
\* worker thread runs.
C2_AtMostOneWorker ==
    /\ Cardinality(AliveThreads) <= 1
    /\ Cardinality(connected) <= 1
    /\ AliveThreads \subseteq {kernel_runner}
    /\ connected \subseteq {kernel_runner}
    /\ kernel_runner = None => AliveThreads = {}

\* toggle_repl has been called twice in a row with nothing in between, and
\* one worker thread exists.
C2_Witness ==
    /\ op = "toggle_repl" /\ repeated
    /\ kernel_runner # None
    /\ thread[kernel_runner] = "started"
    /\ Cardinality(AliveThreads) = 1

\* C3: a toggle_repl call made in Starting or in Stopping leaves the session
\* state unchanged, removes no REPL pane from the view and sends no stop
\* request to the runner.
C3_ToggleInTransitionChangesNothing ==
    [][(op' = "toggle_repl" /\ (Starting \/ Stopping)) =>
          /\ SessionState' = SessionState
          /\ view_repl' = view_repl
          /\ workerQ' = workerQ]_vars

\* C4: once on_kernel_start has run the session is Running; the next
\* toggle_repl sends the stop request and creates no runner or thread; no
\* runner or thread is created before on_kernel_stop has run; and the session
\* states follow each other as Idle, Starting, Running, Stopping, Idle.
C4_SessionOrder ==
    [][/\ op' = "on_kernel_start" => SessionState' = "Running"
       /\ (op' = "toggle_repl" /\ kstarted) =>
              /\ SessionState' = "Stopping"
              /\ workerQ'[kernel_runner] = workerQ[kernel_runner] + 1
              /\ thread' = thread /\ kernel_runner' = kernel_runner
       /\ (thread' # thread /\ \E i \in Sessions :
               thread[i] = "unborn" /\ thread'[i] # "unborn") => Idle
       /\ \/ SessionState' = SessionState
          \/ <<SessionState, SessionState'>> \in
                {<<"Idle", "Starting">>, <<"Starting", "Running">>,
                 <<"Running", "Stopping">>, <<"Stopping", "Idle">>}]_vars

\* ========================================================= script run claims
InTrace(name) == \E k \in 1..Len(trace) : trace[k] = name

\* The step is a call of the handler `name`.
Calls(name) == op' = name

\* The step spawned a script process.
Spawned == \E k \in 1..Len(trace') : trace'[k] = "add_python3_runner"

\* C5 as stated: run_toggle called when no script is running leaves runner
\* set and 'debug' and 'modes' disabled; called while a script is running it
\* leaves runner None and 'debug' and 'modes' enabled.
C5_RunToggleAlwaysToggles ==
    [][Calls("run_toggle") =>
          IF runner = None
          THEN runner' # None /\ ~debug_enabled' /\ ~modes_enabled'
          ELSE runner' = None /\ debug_enabled' /\ modes_enabled']_vars

\* C5 as amended: run_toggle called when no script is running leaves runner
\* set and 'debug' and 'modes' disabled if there is a tab whose path is not
\* None after the save, and otherwise leaves runner None and both slots as
\* they were; called while a script is running it leaves runner None and
\* 'debug' and 'modes' enabled.
C5_RunToggle ==
    [][Calls("run_toggle") =>
          IF runner = None
          THEN IF tab'.present /\ tab'.path # None
               THEN runner' # None /\ ~debug_enabled' /\ ~modes_enabled'
               ELSE /\ runner' = None
                    /\ UNCHANGED <<debug_enabled, modes_enabled, run_slot>>
          ELSE runner' = None /\ debug_enabled' /\ modes_enabled']_vars

\* run_toggle has started a script and disabled the two slots.
C5_Witness ==
    /\ op = "run_toggle" /\ InTrace("add_python3_runner")
    /\ runner # None /\ ~debug_enabled /\ ~modes_enabled

\* C6: after any sequence of run_toggle calls the run slot shows Stop, and
\* 'debug' and 'modes' are disabled, if and only if runner is set; a
\* run_toggle that started nothing leaves Run shown and both slots enabled.
C6_ButtonsFollowRunner ==
    /\ run_slot = "stop" <=> runner # None
    /\ ~debug_enabled <=> runner # None
    /\ ~modes_enabled <=> runner # None
    /\ (op = "run_toggle" /\ ~InTrace("add_python3_runner")) =>
           run_slot = "run" /\ debug_enabled /\ modes_enabled

\* run_toggle on a tab whose path stayed None after the save: nothing started.
C6_Witness ==
    /\ op = "run_toggle" /\ trace = <<"save">>
    /\ tab.present /\ tab.path = None
    /\ runner = None /\ run_slot = "run" /\ debug_enabled /\ modes_enabled

\* C7: runner is set exactly while the script process runs: it is cleared
\* when the script is stopped and when the process ends by itself, so a
\* run_toggle after the process has ended by itself starts a new run.
C7_RunnerSetIffProcessRuns ==
    /\ runner # None => proc[runner] = "running"
    /\ \A p \in Procs : proc[p] = "running" => runner = p

\* C8 as stated: stop_script with no process handle kills nothing, leaves
\* runner None, issues no command to the view and leaves controller and view
\* as they were.
C8_StopScriptSilentNoop ==
    [][(Calls("stop_script") /\ runner = None) =>
          trace' = <<>> /\ UNCHANGED scriptVars]_vars

\* C8 as amended: stop_script with no process handle kills nothing, leaves
\* runner None and issues one command to the view, remove_python_runner,
\* which finds no pane to remove; controller and view are left as they were.
C8_StopScriptNoop ==
    [][(Calls("stop_script") /\ runner = None) =>
          /\ trace' = <<"remove_python_runner">>
          /\ view_runner = None
          /\ UNCHANGED scriptVars]_vars

\* stop_script has been called twice in a row with nothing running.
C8_Witness ==
    /\ op = "stop_script" /\ repeated
    /\ trace = <<"remove_python_runner">>
    /\ runner = None /\ view_runner = None

\* The buttons of the script run state.
buttons == <<run_slot, debug_enabled, modes_enabled>>

\* C9 as stated: run_script with no active tab spawns no process and leaves
\* runner and the buttons as they were, whether or not a script was running.
C9_NoTabLeavesRunState ==
    [][(Calls("run_script") /\ ~tab.present) =>
          /\ ~Spawned
          /\ runner' = runner
          /\ UNCHANGED buttons]_vars

\* C9 as amended: run_script with no active tab spawns no process and leaves
\* the buttons as they were; it leaves runner None and the processes as they
\* were when no script was running, and kills the process and clears runner
\* when one was.
C9_NoTabStopsScript ==
    [][(Calls("run_script") /\ ~tab.present) =>
          /\ ~Spawned
          /\ UNCHANGED buttons
          /\ runner' = None
          /\ IF runner = None
             THEN proc' = proc /\ trace' = <<"remove_python_runner">>
             ELSE /\ proc' = [proc EXCEPT ![runner] = "none"]
                  /\ trace' = <<"kill", "waitForFinished",
                                "remove_python_runner">>]_vars

\* run_script was called with no tab while a script was running.
C9_Witness ==
    /\ op = "run_script" /\ ~tab.present
    /\ trace = <<"kill", "waitForFinished", "remove_python_runner">>
    /\ runner = None /\ run_slot = "stop"

\* C10: run_script on a tab whose path is None calls editor.save() first and
\* spawns the process only if the path is not None after the save; if it is
\* still None, nothing is spawned, runner stays as it was (None when no
\* script was running) and nothing is written to disk.
C10_SaveBeforeRun ==
    [][((Calls("run_script") \/ (Calls("run_toggle") /\ runner = None))
            /\ tab.present /\ tab.path = None) =>
          /\ trace' # <<>> /\ Head(trace') = "save"
          /\ Spawned <=> tab'.path # None
          /\ Spawned => runner' # None /\ proc'[runner'] = "running"
          /\ tab'.path = None =>
                /\ runner' = runner
                /\ proc' = proc
                /\ disk' = disk]_vars

\* run_script on an unsaved tab whose save was cancelled: nothing spawned.
C10_Witness ==
    /\ op = "run_script" /\ trace = <<"save">>
    /\ tab.present /\ tab.path = None
    /\ runner = None /\ \A p \in Procs : proc[p] = "none"

\* C11: run_script on a tab with a path and isModified() true writes the
\* tab's text to the file at that path and sets the tab unmodified before the
\* process is spawned: the write comes before add_python3_runner, nothing
\* comes between them, and the file holds the tab's text and the tab is
\* unmodified from then on.
C11_WriteBeforeSpawn ==
    [][((Calls("run_script") \/ (Calls("run_toggle") /\ runner = None))
            /\ tab.present /\ tab.path # None /\ tab.modified) =>
          /\ trace' = <<"write_and_flush", "add_python3_runner",
                        "waitForStarted">>
          /\ disk'[tab.path] = tab.text
          /\ tab' = [tab EXCEPT !.modified = FALSE]
          /\ runner' # None /\ proc'[runner'] = "running"]_vars

\* run_script has written a modified tab and then spawned the process.
C11_Witness ==
    /\ op = "run_script"
    /\ trace = <<"write_and_flush", "add_python3_runner", "waitForStarted">>
    /\ tab.present /\ tab.path # None /\ ~tab.modified
    /\ disk[tab.path] = tab.text
    /\ runner # None

\* The number of calls of `name` in a trace.
RECURSIVE CountCalls(_, _)
CountCalls(tr, name) ==
    IF tr = <<>> THEN 0
    ELSE (IF Head(tr) = name THEN 1 ELSE 0) + CountCalls(Tail(tr), name)

\* C15: run_script on a tab whose path is None, when editor.save() assigns a
\* path and leaves the tab unmodified, calls editor.save() once and makes no
\* explicit write of the file before it spawns the process.
C15_NoSecondSave ==
    (tab.present /\ tab.path = None) =>
        \A outcome \in SaveOutcomes, p \in Paths :
            LET saved == editor_save(ScriptState, outcome, p)
                done == run_script(ScriptState, outcome, p)
            IN  (CanSpawn /\ saved.tab.path # None /\ ~saved.tab.modified) =>
                    /\ done.trace = <<"save", "add_python3_runner",
                                      "waitForStarted">>
                    /\ CountCalls(done.trace, "save") = 1
                    /\ CountCalls(done.trace, "write_and_flush") = 0
                    /\ done.disk = saved.disk
                    /\ done.runner # None

\* run_script has saved an unsaved tab through editor.save() and spawned the
\* process with no write of its own.
C15_Witness ==
    /\ op = "run_script"
    /\ trace = <<"save", "add_python3_runner", "waitForStarted">>
    /\ tab.present /\ tab.path # None /\ ~tab.modified
    /\ disk[tab.path] = tab.text
    /\ runner # None

\* ============================================== kernel session claims (2)
\* The steps of the worker thread.
WorkerOps == {"start_kernel", "stop_kernel", "thread_finished"}

\* The UI state and the session fields of the controller, with the record of
\* which of its handlers have run.
uiState == <<view_repl, repl_enabled, status_message, kernel_runner,
             kernel_thread, connected, kstarted, remove_count>>

Queued(kind, i) == \E k \in 1..Len(mainQ) : mainQ[k] = <<kind, i>>

\* C12: the view's REPL pane, the 'repl' button, the status message and
\* kernel_runner are written by the handlers of the UI thread only: a step of
\* the worker thread changes the runner's own manager/client and queues at
\* most one notification, and on_kernel_start and on_kernel_stop run only as
\* the head of the UI thread's queue.
C12_OnlyUiThreadWritesUi ==
    [][/\ op' \in WorkerOps =>
             /\ UNCHANGED uiState
             /\ \/ mainQ' = mainQ
                \/ \E i \in Sessions :
                      \E kind \in {"on_kernel_start", "quit", "on_kernel_stop"} :
                          mainQ' = Append(mainQ, <<kind, i>>)
       /\ (view_repl' # view_repl \/ repl_enabled' # repl_enabled
             \/ status_message' # status_message
             \/ kernel_runner' # kernel_runner) =>
             op' \in {"toggle_repl", "on_kernel_start", "on_kernel_stop"}
       /\ kstarted' /\ ~kstarted =>
             /\ op' = "on_kernel_start"
             /\ mainQ # <<>> /\ Head(mainQ)[1] = "on_kernel_start"
             /\ mainQ' = Tail(mainQ)
       /\ kernel_runner' = None /\ kernel_runner # None =>
             /\ op' = "on_kernel_stop"
             /\ mainQ # <<>> /\ Head(mainQ)[1] = "on_kernel_stop"
             /\ mainQ' = Tail(mainQ)]_vars

\* start_kernel has emitted kernel_started and the UI is not yet updated.
C12_Witness ==
    /\ op = "start_kernel"
    /\ kernel_runner # None
    /\ mainQ = <<<<"on_kernel_start", kernel_runner>>>>
    /\ ~repl_enabled /\ view_repl = None /\ ~kstarted
    /\ status_message = "Starting iPython REPL."

\* C13: with the worker thread and the UI event queue scheduled fairly, a
\* session that is Starting is eventually announced by on_kernel_start, which
\* enables the 'repl' button; a session that is Stopping is eventually ended
\* by on_kernel_stop, which enables the button and leaves kernel_runner None;
\* a disabled button is eventually enabled.
C13_ButtonReenabled ==
    /\ Starting ~> (op = "on_kernel_start" /\ repl_enabled)
    /\ Stopping ~> (op = "on_kernel_stop" /\ repl_enabled /\ Idle)
    /\ (~repl_enabled) ~> repl_enabled

\* on_kernel_stop has ended a session and enabled the button.
C13_Witness ==
    /\ op = "on_kernel_stop" /\ repl_enabled /\ Idle
    /\ \E i \in Sessions : thread[i] = "finished" /\ stop_runs[i] > 0

\* C14: in a session the channels are stopped, then the kernel shutdown is
\* requested, then kernel_finished is emitted, then the thread quits, and
\* only after the thread has finished does on_kernel_stop clear
\* kernel_runner; on_kernel_stop runs for no session whose kernel shutdown
\* has not been requested.
C14_Order ==
    \A i \in Sessions :
        /\ kernel[i] = "down" => stop_runs[i] > 0
        /\ kernel[i] = "channels_stopped" => stop_pc[i] = "channels_stopped"
        /\ stop_pc[i] = "shutdown" => kernel[i] = "down"
        /\ Queued("quit", i) => kernel[i] = "down"
        /\ thread[i] \in {"quit", "finished"} => kernel[i] = "down"
        /\ Queued("on_kernel_stop", i) => thread[i] = "finished"
        /\ (thread[i] = "finished" /\ kernel_runner # i) =>
               ~Queued("on_kernel_stop", i)
        /\ (thread[i] \in {"started", "starting", "loop", "quit"}
              \/ Queued("on_kernel_stop", i)) => kernel_runner = i

C14_ShutdownOrder ==
    /\ []C14_Order
    /\ [][\A i \in Sessions :
             /\ (kernel'[i] = "down" /\ kernel[i] # "down") =>
                    kernel[i] = "channels_stopped"
             /\ (thread'[i] = "quit" /\ thread[i] # "quit") =>
                    (op' = "quit" /\ kernel[i] = "down")
             /\ (kernel_runner = i /\ kernel_runner' = None) =>
                    (thread[i] = "finished" /\ kernel[i] = "down")]_vars

\* on_kernel_stop has cleared kernel_runner after the whole shutdown.
C14_Witness ==
    /\ op = "on_kernel_stop" /\ kernel_runner = None
    /\ \E i \in Sessions :
          thread[i] = "finished" /\ kernel[i] = "down" /\ stop_runs[i] = 1

\* C16: the view has a REPL pane only while the session is Running; with
\* kernel_runner None there is none, and on_kernel_start attaches none for a
\* session whose removal has been requested.
C16_ReplPaneOnlyWhileRunning ==
    view_repl # None => Running

\* C17: on each runner stop_kernel begins only after start_kernel has
\* returned: a stop request made while the kernel is starting waits in the
\* worker's queue until the manager is started and the client obtained.
C17_StopAfterStart ==
    \A i \in Sessions :
        /\ (stop_runs[i] > 0 \/ stop_pc[i] # "idle") =>
               /\ thread[i] \in {"loop", "quit", "finished"}
               /\ kernel[i] \in {"up", "channels_stopped", "down"}
        /\ thread[i] \in {"unborn", "started", "starting"} =>
               kernel[i] \in {"none", "manager"}

\* A stop request waits in the worker's queue while start_kernel runs.
C17_Witness ==
    \E i \in Sessions :
        /\ thread[i] = "starting" /\ kernel[i] = "manager"
        /\ workerQ[i] > 0 /\ stop_runs[i] = 0

\* ================================================================ frames
\* C18: the two state machines are independent.  run_toggle (with the
\* run_script and stop_script it calls) leaves kernel_runner, the worker
\* thread, the REPL pane and the 'repl' button as they were; toggle_repl (with
\* add_repl or remove_repl), on_kernel_start and on_kernel_stop leave runner
\* and the 'run', 'debug' and 'modes' slots as they were; debug leaves runner
\* and kernel_runner as they were.
C18_Independent ==
    [][/\ op' \in {"run_toggle", "run_script", "stop_script"} =>
             UNCHANGED <<kernel_runner, kernel_thread, thread, kernel, stop_pc,
                         workerQ, connected, mainQ, view_repl, repl_enabled>>
       /\ op' \in {"toggle_repl", "on_kernel_start", "on_kernel_stop"} =>
             UNCHANGED <<runner, proc, view_runner, run_slot, debug_enabled,
                         modes_enabled>>
       /\ op' = "debug" => UNCHANGED <<runner, kernel_runner>>]_vars

\* A REPL session has been stopped while a script was running.
C18_Witness ==
    /\ op = "on_kernel_stop" /\ Idle
    /\ runner # None /\ proc[runner] = "running"
    /\ run_slot = "stop" /\ ~debug_enabled /\ ~modes_enabled

====
